---- MODULE Spec2Model ----
(***************************************************************************)
(* Account and credential authority of cls-node-final: the users model     *)
(* (authenticate, create, status changes, login types, temporary           *)
(* passwords, custom weights) and the companies model (company lookup,     *)
(* partner permissions).                                                   *)
(*                                                                         *)
(* Every exported async function is split at its awaits: a storage query,  *)
(* a gateway request and a bcrypt computation each complete in a step of   *)
(* their own, so calls of different callers interleave between them.       *)
(*                                                                         *)
(* Nullable values are sequences of length <= 1: None is null/undefined,   *)
(* Some(v) is a present value.  Time is counted in minutes.                *)
(***************************************************************************)
EXTENDS Integers, Sequences, FiniteSets, TLC

VARIABLES
    users,        \* table "users": id -> None | Some(row)
    nextId,       \* the table's auto-increment sequence
    companies,    \* the company directory behind the gateway client
    now,          \* the wall clock (minutes)
    auth,         \* per caller: the authenticate call in flight or finished
    pwd,          \* per caller: changePassword call
    tmp,          \* per caller: setTemporaryPassword / checkTemporaryPassword call
    lt,           \* per caller: the user object held and the updateUserLoginTypes call on it
    custom_weights, \* table "custom_weights": a sequence of rows
    cw,           \* per caller: setUsersCustomWeights call
    company_partner_permissions, \* table: a sequence of rows
    perm,         \* per caller: the last getCompanyPartnerPermissions call
    hist          \* history: per user id, the last completed credential writes

vars == <<users, nextId, companies, now, auth, pwd, tmp, lt,
          custom_weights, cw, company_partner_permissions, perm, hist>>

---------------------------------------------------------------------------
(* Bounds of the model *)

MaxUsers == 1
MaxTime == 15
TickMinutes == 5
MaxWeightRows == 3
MaxPermissionRows == 2
NumCallers == 2
TermEnd == 1

(* Program constants *)

SaltRounds == 10
TempPasswordMinutes == 10

UserIds == 1..MaxUsers
Callers == 1..NumCallers
CompanyIds == {1}
Times == 0..MaxTime

None == <<>>
Some(v) == <<v>>
\* JavaScript truthiness of a nullable string
Truthy(o) == o # None /\ o # Some("")

---------------------------------------------------------------------------
(* Strings the callers supply *)

LowerChar(c) == IF c = "A" THEN "a" ELSE c
\* String.prototype.toLowerCase, character by character
toLowerCase(s) == [i \in 1..Len(s) |-> LowerChar(s[i])]

EmailInputs == {<<"a">>, <<"A">>, <<"b">>}
PasswordInputs == {None, Some(""), Some("p1"), Some("p2")}
\* roles are nullable strings
RoleInputs == {None, Some("user"), Some("admin"), Some("superadmin"),
               Some("hacker"), Some("Admin")}
CompanyIdInputs == {None} \cup {Some(c) : c \in CompanyIds}

---------------------------------------------------------------------------
(* bcryptjs: an opaque salted hash that records its cost; compare succeeds *)
(* exactly on the plaintext the hash was made from.                        *)

hash(s, rounds) == <<"bcrypt", rounds, s>>
compare(s, h) == h[1] = "bcrypt" /\ h[3] = s

---------------------------------------------------------------------------
(* helpers/auth and helpers/presence *)

statusActive(status) == status = "active"
\* a null company never gates; otherwise the term runs until end_date
companyTermActive(company, t) == company = None \/ t < company[1].end_date
\* company ids are numbers here, so blank is null/undefined
isBlank(o) == o = None

---------------------------------------------------------------------------
(* Results of calls *)

Pending == [kind |-> "pending", msg |-> "", user |-> None]
Return(m) == [kind |-> "return", msg |-> m, user |-> None]
ReturnUser(u) == [kind |-> "return", msg |-> "user", user |-> Some(u)]
Throw(m) == [kind |-> "throw", msg |-> m, user |-> None]

toUser(row) ==
    [id |-> row.id, email |-> row.email, termsAcceptedAt |-> row.terms_accepted_at,
     role |-> row.role, company_id |-> row.company_id, status |-> row.status,
     notice_email_sent |-> row.notice_email_sent, login_types |-> row.login_types]

\* select ... from users where email = e limit 1
RowsByEmail(e) == {id \in UserIds : users[id] # None /\ users[id][1].email = e}
FirstByEmail(e) ==
    IF RowsByEmail(e) = {} THEN None
    ELSE users[CHOOSE id \in RowsByEmail(e) : \A j \in RowsByEmail(e) : id <= j]

---------------------------------------------------------------------------
(* State after construction: empty users table, one company in the        *)
(* directory, nobody calling.                                              *)

\* changed: the plaintext of the last completed changePassword, if any;
\* issued: the last two completed setTemporaryPassword updates, older first,
\*   each with the plaintext, the time of the update, whether a check of it
\*   has returned true (verified) and whether a changePassword has completed
\*   since (outlived);
\* ltWriter: the caller whose update of login_types was applied last (0: none)
\* asked: the role and the password create was called with, once the
\*   account is created
LastTwo(q) == IF Len(q) <= 2 THEN q ELSE SubSeq(q, Len(q) - 1, Len(q))
HistNone == [changed |-> None, issued |-> <<>>, ltWriter |-> 0, asked |-> None]
Issue(plain, t) ==
    [plain |-> plain, at |-> t, verified |-> FALSE, outlived |-> FALSE]
\* the history with the latest issue marked, when it is the issue i
MarkVerified(q, i) ==
    IF q # <<>> /\ q[Len(q)].plain = i.plain /\ q[Len(q)].at = i.at
    THEN [q EXCEPT ![Len(q)].verified = TRUE] ELSE q
MarkOutlived(q) ==
    IF q = <<>> THEN q ELSE [q EXCEPT ![Len(q)].outlived = TRUE]

\* reads and gateway count the queries and gateway requests of the call;
\* checkedAt and seen record the clock at the checks and the password
\* history at the select
AuthIdle ==
    [pc |-> "idle", email |-> <<>>, password |-> None, row |-> None,
     company |-> None, reads |-> 0, gateway |-> 0, checkedAt |-> 0,
     seen |-> None, result |-> Pending]

PwdIdle == [pc |-> "idle", id |-> 0, newPassword |-> "", hashed |-> None]

\* seen records the issue history at the select, at the clock the call read
TmpIdle ==
    [op |-> "", pc |-> "idle", id |-> 0, plain |-> "", hashed |-> None,
     row |-> None, seen |-> <<>>, at |-> 0, result |-> Pending]

\* from: how the caller came by the object ("find", or "update" with the tag)
HeldNone == [user |-> None, from |-> "", tag |-> ""]

LtIdle ==
    [pc |-> "idle", loginType |-> "", arg |-> HeldNone, loginTypes |-> <<>>,
     wrote |-> FALSE, result |-> Pending]

CwIdle ==
    [pc |-> "idle", user_id |-> 0, property_type |-> "", weights |-> <<>>,
     matchingEntry |-> None]

PermIdle == [pc |-> "idle", companyId |-> 0, result |-> <<>>]

\* everything but the two tables that no function of these modules fills
InitCalls ==
    /\ users = [id \in UserIds |-> None]
    /\ nextId = 1
    /\ companies = [c \in CompanyIds |-> [id |-> c, end_date |-> TermEnd]]
    /\ now = 0
    /\ auth = [p \in Callers |-> AuthIdle]
    /\ pwd = [p \in Callers |-> PwdIdle]
    /\ tmp = [p \in Callers |-> TmpIdle]
    /\ lt = [p \in Callers |-> LtIdle]
    /\ cw = [p \in Callers |-> CwIdle]
    /\ perm = [p \in Callers |-> PermIdle]
    /\ hist = [id \in UserIds |-> HistNone]

Init ==
    /\ InitCalls
    /\ custom_weights = <<>>
    /\ company_partner_permissions = <<>>

---------------------------------------------------------------------------
(* The clock *)

Tick(minutes) ==
    /\ now + minutes <= MaxTime
    /\ now' = now + minutes
    /\ UNCHANGED <<users, nextId, companies, auth, pwd, tmp, lt,
                   custom_weights, cw, company_partner_permissions, perm, hist>>

---------------------------------------------------------------------------
(* create(email, password, role, company_id) *)

Roles == {"user", "admin", "superadmin"}
\* a create that stores any role it is given
acceptableRoleAny(role) == IF role = None THEN "user" ELSE role[1]

\* contains(role, roles) ? role : "user"
acceptableRole(role) ==
    IF role # None /\ role[1] \in Roles THEN role[1] ELSE "user"
\* a create that hashes whatever it is given
encryptedPasswordOfAlways(password) ==
    Some(hash(IF password = None THEN "" ELSE password[1], SaltRounds))

\* password ? hash(password, 10) : Promise.resolve(null)
encryptedPasswordOf(password) ==
    IF Truthy(password) THEN Some(hash(password[1], SaltRounds)) ELSE None

\* the columns the insert does not name take the table's defaults: an active
\* account with nothing accepted, sent, recorded or issued
NewRow(id, email, password, role, company_id) ==
    [id |-> id,
     email |-> toLowerCase(email),
     encrypted_password |-> encryptedPasswordOf(password),
     company_id |-> company_id,
     role |-> acceptableRole(role),
     status |-> "active",
     terms_accepted_at |-> None,
     notice_email_sent |-> FALSE,
     login_types |-> None,
     temp_password |-> None,
     temp_password_expire_time |-> None]

\* the insert is refused by the unique index on email when the address is taken
create(email, password, role, company_id) ==
    /\ nextId <= MaxUsers
    /\ RowsByEmail(toLowerCase(email)) = {}
    /\ users' = [users EXCEPT ![nextId] =
                    Some(NewRow(nextId, email, password, role, company_id))]
    /\ nextId' = nextId + 1
    /\ hist' = [hist EXCEPT ![nextId] =
                  [HistNone EXCEPT !.asked =
                      Some([role |-> role, password |-> password])]]
    /\ UNCHANGED <<companies, now, auth, pwd, tmp, lt,
                   custom_weights, cw, company_partner_permissions, perm>>

---------------------------------------------------------------------------
(* connection("users").where("id", id).update(patch): a sparse update of   *)
(* the fields the patch names; no row, no change and no error.             *)

Merge(row, patch) ==
    [f \in DOMAIN row |-> IF f \in DOMAIN patch THEN patch[f] ELSE row[f]]

update(id, patch) ==
    IF users[id] = None THEN users
    ELSE [users EXCEPT ![id] = Some(Merge(users[id][1], patch))]

---------------------------------------------------------------------------
(* authenticate(email, password) *)

\* the checks between the company lookup and bcrypt's compare
authenticateChecks(row, company, t) ==
    IF ~statusActive(row.status)
    THEN Throw("Your accout has been deactivated")
    ELSE IF ~companyTermActive(company, t)
    THEN Throw("Your company subscription has expired")
    ELSE IF row.encrypted_password = None
    THEN Throw("Invalid password")
    ELSE Pending

\* the outcome once bcrypt has compared
authenticateCompared(password, row) ==
    IF compare(password, row.encrypted_password[1])
    THEN ReturnUser(toUser(row))
    ELSE Throw("Invalid password")

authenticateGuardNullOnly(password) == password = None

\* the guard on the password, before any query
authenticateGuard(password) == ~Truthy(password)

AfterCompany(a, company) ==
    LET r == authenticateChecks(a.row[1], company, now) IN
    [a EXCEPT !.company = company, !.checkedAt = now, !.result = r,
              !.pc = IF r = Pending THEN "compare" ELSE "done"]

\* a lookup that asks the gateway whatever the id
getCompanyRequestsAlways(companyId) == 1

\* getCompany(companyId): the number of gateway requests it sends; a blank
\* id returns null without a request
getCompanyRequests(companyId) == IF isBlank(companyId) THEN 0 ELSE 1

\* the row is selected; getCompany returns null at once or asks the gateway
AfterSelect(a, found) ==
    IF found = None
    THEN [a EXCEPT !.pc = "done", !.result = Throw("Username cannot be found")]
    ELSE IF getCompanyRequests(found[1].company_id) = 0
    THEN AfterCompany([a EXCEPT !.row = found], None)
    ELSE [a EXCEPT !.row = found, !.pc = "getCompany",
                   !.gateway = @ + getCompanyRequests(found[1].company_id)]

\* a lookup by the address as it was typed
authenticateLookupExact(email) == FirstByEmail(email)

\* select ... from users where email = email.toLowerCase() limit 1
authenticateLookup(email) == FirstByEmail(toLowerCase(email))

authenticateCall(p, email, password) ==
    /\ auth[p].pc \in {"idle", "done"}
    /\ auth' = [auth EXCEPT ![p] =
          IF authenticateGuard(password)
          THEN [AuthIdle EXCEPT !.pc = "done", !.email = email,
                                !.password = password, !.result = Return("false")]
          ELSE [AuthIdle EXCEPT !.pc = "select", !.email = email,
                                !.password = password]]
    /\ UNCHANGED <<users, nextId, companies, now, pwd, tmp, lt,
                   custom_weights, cw, company_partner_permissions, perm, hist>>

authenticateSelect(p) ==
    /\ auth[p].pc = "select"
    /\ LET found == authenticateLookup(auth[p].email) IN
       auth' = [auth EXCEPT ![p] =
          AfterSelect([auth[p] EXCEPT !.reads = @ + 1,
                          !.seen = IF found = None THEN None
                                   ELSE hist[found[1].id].changed],
                      found)]
    /\ UNCHANGED <<users, nextId, companies, now, pwd, tmp, lt,
                   custom_weights, cw, company_partner_permissions, perm, hist>>

\* the gateway answers with the company, or the request fails
authenticateGetCompany(p, answered) ==
    /\ auth[p].pc = "getCompany"
    /\ auth' = [auth EXCEPT ![p] =
          IF answered
          THEN AfterCompany(auth[p], Some(companies[auth[p].row[1].company_id[1]]))
          ELSE [auth[p] EXCEPT !.pc = "done", !.checkedAt = now,
                               !.result = Throw("company lookup failed")]]
    /\ UNCHANGED <<users, nextId, companies, now, pwd, tmp, lt,
                   custom_weights, cw, company_partner_permissions, perm, hist>>

authenticateCompare(p) ==
    /\ auth[p].pc = "compare"
    /\ auth' = [auth EXCEPT ![p] =
          [auth[p] EXCEPT !.pc = "done",
             !.result = authenticateCompared(auth[p].password[1], auth[p].row[1])]]
    /\ UNCHANGED <<users, nextId, companies, now, pwd, tmp, lt,
                   custom_weights, cw, company_partner_permissions, perm, hist>>

\* the outcome of a whole call that nothing interleaves with, the gateway
\* answering or failing
authenticateRun(email, password, answered) ==
    IF authenticateGuard(password) THEN Return("false")
    ELSE LET call == [AuthIdle EXCEPT !.email = email, !.password = password]
             a == AfterSelect(call, authenticateLookup(email))
             b == IF a.pc # "getCompany" THEN a
                  ELSE IF answered
                  THEN AfterCompany(a, Some(companies[a.row[1].company_id[1]]))
                  ELSE [a EXCEPT !.pc = "done",
                                 !.result = Throw("company lookup failed")]
         IN IF b.pc = "compare"
            THEN authenticateCompared(password[1], b.row[1])
            ELSE b.result

---------------------------------------------------------------------------
(* remove, deactivate, activate, acceptTermsOfService, updateNoticeEmailSent *)

\* the row is deleted, and its history ends with it
remove(userId) ==
    /\ users' = [users EXCEPT ![userId] = None]
    /\ hist' = [hist EXCEPT ![userId] = HistNone]
    /\ UNCHANGED <<nextId, companies, now, auth, pwd, tmp, lt,
                   custom_weights, cw, company_partner_permissions, perm>>

\* a deactivate that also withdraws the account's credentials
deactivateRevoking(userId) ==
    /\ users' = update(userId, [status |-> "inactive", encrypted_password |-> None,
                                temp_password |-> None,
                                temp_password_expire_time |-> None])
    /\ UNCHANGED <<nextId, companies, now, auth, pwd, tmp, lt,
                   custom_weights, cw, company_partner_permissions, perm, hist>>

deactivate(userId) ==
    /\ users' = update(userId, [status |-> "inactive"])
    /\ UNCHANGED <<nextId, companies, now, auth, pwd, tmp, lt,
                   custom_weights, cw, company_partner_permissions, perm, hist>>

activate(userId) ==
    /\ users' = update(userId, [status |-> "active"])
    /\ UNCHANGED <<nextId, companies, now, auth, pwd, tmp, lt,
                   custom_weights, cw, company_partner_permissions, perm, hist>>

acceptTermsOfService(userId) ==
    /\ users' = update(userId, [terms_accepted_at |-> Some(now)])
    /\ UNCHANGED <<nextId, companies, now, auth, pwd, tmp, lt,
                   custom_weights, cw, company_partner_permissions, perm, hist>>

updateNoticeEmailSent(userId) ==
    /\ users' = update(userId, [notice_email_sent |-> TRUE])
    /\ UNCHANGED <<nextId, companies, now, auth, pwd, tmp, lt,
                   custom_weights, cw, company_partner_permissions, perm, hist>>

---------------------------------------------------------------------------
(* changePassword(userId, newPassword): bcrypt hashes, then one update *)

changePasswordPatchWrongColumn(hashed) == [temp_password |-> Some(hashed)]

\* a change of password that also withdraws the pending temporary password
changePasswordPatchClearsTemporary(hashed) ==
    [encrypted_password |-> Some(hashed), temp_password |-> None,
     temp_password_expire_time |-> None]

changePasswordPatch(hashed) == [encrypted_password |-> Some(hashed)]

changePasswordCall(p, userId, newPassword) ==
    /\ pwd[p].pc \in {"idle", "done"}
    /\ pwd' = [pwd EXCEPT ![p] =
          [pc |-> "update", id |-> userId, newPassword |-> newPassword,
           hashed |-> Some(hash(newPassword, SaltRounds))]]
    /\ UNCHANGED <<users, nextId, companies, now, auth, tmp, lt,
                   custom_weights, cw, company_partner_permissions, perm, hist>>

changePasswordUpdate(p) ==
    /\ pwd[p].pc = "update"
    /\ users' = update(pwd[p].id, changePasswordPatch(pwd[p].hashed[1]))
    /\ hist' = IF users[pwd[p].id] = None THEN hist
               ELSE [hist EXCEPT ![pwd[p].id].changed = Some(pwd[p].newPassword),
                                 ![pwd[p].id].issued = MarkOutlived(@)]
    /\ pwd' = [pwd EXCEPT ![p].pc = "done"]
    /\ UNCHANGED <<nextId, companies, now, auth, tmp, lt,
                   custom_weights, cw, company_partner_permissions, perm>>

NewPasswords == {"p2"}

---------------------------------------------------------------------------
(* setTemporaryPassword(userId, tempPassword): bcrypt hashes, then one     *)
(* update writes the hash and the expiry, ten minutes from the update.     *)

setTemporaryPasswordPatchHashOnly(hashed, t) == [temp_password |-> Some(hashed)]

setTemporaryPasswordPatchExpiryOnly(hashed, t) ==
    [temp_password_expire_time |-> Some(t + TempPasswordMinutes)]

setTemporaryPasswordPatch(hashed, t) ==
    [temp_password |-> Some(hashed),
     temp_password_expire_time |-> Some(t + TempPasswordMinutes)]

setTemporaryPasswordCall(p, userId, tempPassword) ==
    /\ tmp[p].pc \in {"idle", "done"}
    /\ tmp' = [tmp EXCEPT ![p] =
          [TmpIdle EXCEPT !.op = "set", !.pc = "update", !.id = userId,
                          !.plain = tempPassword,
                          !.hashed = Some(hash(tempPassword, SaltRounds))]]
    /\ UNCHANGED <<users, nextId, companies, now, auth, pwd, lt,
                   custom_weights, cw, company_partner_permissions, perm, hist>>

setTemporaryPasswordUpdate(p) ==
    /\ tmp[p].op = "set" /\ tmp[p].pc = "update"
    /\ users' = update(tmp[p].id, setTemporaryPasswordPatch(tmp[p].hashed[1], now))
    /\ hist' = IF users[tmp[p].id] = None THEN hist
               ELSE [hist EXCEPT ![tmp[p].id].issued =
                        LastTwo(Append(@, Issue(tmp[p].plain, now)))]
    /\ tmp' = [tmp EXCEPT ![p].pc = "done", ![p].at = now,
                          ![p].result = Return("undefined")]
    /\ UNCHANGED <<nextId, companies, auth, pwd, lt, now,
                   custom_weights, cw, company_partner_permissions, perm>>

---------------------------------------------------------------------------
(* checkTemporaryPassword(userId, tempPassword): one select, then bcrypt   *)
(* compares and the clock is read.                                         *)

checkTemporaryPasswordMissingNever(hashedTempPassword, expireTime) == FALSE

\* the guard on the selected columns
checkTemporaryPasswordMissing(hashedTempPassword, expireTime) ==
    hashedTempPassword = None \/ expireTime = None

\* moment() < moment(expireTime); moment(null) is invalid and compares false
BeforeExpiry(t, expireTime) == expireTime # None /\ t < expireTime[1]
BeforeOrAtExpiry(t, expireTime) == expireTime # None /\ t <= expireTime[1]

checkTemporaryPasswordVerdictInclusive(tempPassword, hashedTempPassword, expireTime, t) ==
    IF hashedTempPassword = None
    THEN Throw("Illegal arguments: string, object")
    ELSE IF compare(tempPassword, hashedTempPassword[1]) /\ BeforeOrAtExpiry(t, expireTime)
    THEN Return("true")
    ELSE Return("false")

\* bcrypt rejects a null hash; otherwise correctTempPassword && before expiry
checkTemporaryPasswordVerdict(tempPassword, hashedTempPassword, expireTime, t) ==
    IF hashedTempPassword = None
    THEN Throw("Illegal arguments: string, object")
    ELSE IF compare(tempPassword, hashedTempPassword[1]) /\ BeforeExpiry(t, expireTime)
    THEN Return("true")
    ELSE Return("false")

checkTemporaryPasswordCall(p, userId, tempPassword) ==
    /\ tmp[p].pc \in {"idle", "done"}
    /\ tmp' = [tmp EXCEPT ![p] =
          [TmpIdle EXCEPT !.op = "check", !.pc = "select", !.id = userId,
                          !.plain = tempPassword]]
    /\ UNCHANGED <<users, nextId, companies, now, auth, pwd, lt,
                   custom_weights, cw, company_partner_permissions, perm, hist>>

\* .select(["temp_password", "temp_password_expire_time"]).first()
selectTemporary(found) ==
    IF found = None THEN None
    ELSE Some([temp_password |-> found[1].temp_password,
               temp_password_expire_time |-> found[1].temp_password_expire_time])

\* .first() yields undefined when no row matches, and destructuring it throws
checkTemporaryPasswordSelect(p) ==
    /\ tmp[p].op = "check" /\ tmp[p].pc = "select"
    /\ LET row == selectTemporary(users[tmp[p].id])
           t == [tmp[p] EXCEPT !.row = row, !.seen = hist[tmp[p].id].issued]
       IN tmp' = [tmp EXCEPT ![p] =
            IF row = None
            THEN [t EXCEPT !.pc = "done", !.at = now,
                    !.result = Throw("TypeError: cannot destructure undefined")]
            ELSE IF checkTemporaryPasswordMissing(row[1].temp_password,
                                                  row[1].temp_password_expire_time)
            THEN [t EXCEPT !.pc = "done", !.at = now, !.result = Return("false")]
            ELSE [t EXCEPT !.pc = "compare"]]
    /\ UNCHANGED <<users, nextId, companies, now, auth, pwd, lt,
                   custom_weights, cw, company_partner_permissions, perm, hist>>

\* a verdict of true is noted in the history of the issue that was compared
Noted(h, t, verdict) ==
    IF verdict = Return("true") /\ t.seen # <<>>
    THEN [h EXCEPT ![t.id].issued = MarkVerified(@, t.seen[Len(t.seen)])]
    ELSE h

\* a check that uses the temporary password up: a verdict of true clears it
checkTemporaryPasswordCompareSingleUse(p) ==
    /\ tmp[p].op = "check" /\ tmp[p].pc = "compare"
    /\ LET verdict == checkTemporaryPasswordVerdict(tmp[p].plain,
                            tmp[p].row[1].temp_password,
                            tmp[p].row[1].temp_password_expire_time, now)
       IN /\ tmp' = [tmp EXCEPT ![p].pc = "done", ![p].at = now,
                                 ![p].result = verdict]
          /\ hist' = Noted(hist, tmp[p], verdict)
          /\ users' = IF verdict = Return("true")
                      THEN update(tmp[p].id, [temp_password |-> None,
                                              temp_password_expire_time |-> None])
                      ELSE users
    /\ UNCHANGED <<nextId, companies, now, auth, pwd, lt,
                   custom_weights, cw, company_partner_permissions, perm>>

\* bcrypt has compared; the clock is read and the verdict returned
checkTemporaryPasswordCompare(p) ==
    /\ tmp[p].op = "check" /\ tmp[p].pc = "compare"
    /\ LET verdict == checkTemporaryPasswordVerdict(tmp[p].plain,
                            tmp[p].row[1].temp_password,
                            tmp[p].row[1].temp_password_expire_time, now)
       IN /\ tmp' = [tmp EXCEPT ![p].pc = "done", ![p].at = now,
                                 ![p].result = verdict]
          /\ hist' = Noted(hist, tmp[p], verdict)
    /\ UNCHANGED <<users, nextId, companies, now, auth, pwd, lt,
                   custom_weights, cw, company_partner_permissions, perm>>

\* the whole decision, as a function of the selected columns and the clock
checkTemporaryPasswordOutcome(tempPassword, hashedTempPassword, expireTime, t) ==
    IF checkTemporaryPasswordMissing(hashedTempPassword, expireTime)
    THEN Return("false")
    ELSE checkTemporaryPasswordVerdict(tempPassword, hashedTempPassword, expireTime, t)

TempPasswords == {"t1", "t2"}

---------------------------------------------------------------------------
(* find(id): the caller fetches the account it will pass on *)

find(p, id) ==
    /\ lt[p].pc \in {"idle", "found", "done"}
    /\ users[id] # None
    /\ lt' = [lt EXCEPT ![p] =
          [LtIdle EXCEPT !.pc = "found",
             !.arg = [user |-> Some(toUser(users[id][1])), from |-> "find",
                      tag |-> ""]]]
    /\ UNCHANGED <<users, nextId, companies, now, auth, pwd, tmp,
                   custom_weights, cw, company_partner_permissions, perm, hist>>

---------------------------------------------------------------------------
(* login_types: the column holds JSON text; an array is what JSON.parse    *)
(* yields and what updateUserLoginTypes puts into the object it returns.   *)

LoginTypes == {"password", "sso"}

JSONstringify(items) == [kind |-> "text", items |-> items]
\* Array.prototype.toString joins the tags with commas
ArrayToString(v) == [kind |-> "joined", items |-> v.items]
\* JSON.parse converts its argument to a string first; tags joined by commas
\* are not JSON text
JSONparse(v) ==
    LET text == IF v.kind = "array" THEN ArrayToString(v) ELSE v IN
    IF text.kind = "text" THEN [ok |-> TRUE, items |-> text.items]
    ELSE [ok |-> FALSE, items |-> <<>>]
asArray(parsed) == parsed

getUserLoginTypes(user) ==
    IF user = None THEN [ok |-> TRUE, items |-> <<>>]
    ELSE IF user[1].login_types = None THEN [ok |-> TRUE, items |-> <<>>]
    ELSE asArray(JSONparse(user[1].login_types[1]))

includesNever(loginTypes, loginType) == FALSE

includes(loginTypes, loginType) ==
    \E i \in 1..Len(loginTypes) : loginTypes[i] = loginType

\* { ...user, login_types: loginTypes }
withLoginTypes(user, loginTypes) ==
    [user EXCEPT !.login_types = Some([kind |-> "array", items |-> loginTypes])]

\* the object the caller passes: the one it fetched, or the one the last
\* call returned
Passed(l) ==
    IF l.pc = "found" THEN l.arg
    ELSE [user |-> l.result.user, from |-> "update", tag |-> l.loginType]

\* the synchronous part: parse, test, push and send the update
updateUserLoginTypesCall(p, loginType) ==
    /\ lt[p].pc \in {"found", "done"}
    /\ Passed(lt[p]).user # None
    /\ LET user == Passed(lt[p]).user
           parsed == getUserLoginTypes(user)
           call == [LtIdle EXCEPT !.loginType = loginType, !.arg = Passed(lt[p])]
       IN lt' = [lt EXCEPT ![p] =
            IF ~parsed.ok
            THEN [call EXCEPT !.pc = "done",
                    !.result = Throw("SyntaxError: Unexpected token in JSON")]
            ELSE IF ~includes(parsed.items, loginType)
            THEN [call EXCEPT !.pc = "update",
                    !.loginTypes = Append(parsed.items, loginType)]
            ELSE [call EXCEPT !.pc = "done", !.loginTypes = parsed.items,
                    !.result = ReturnUser(user[1])]]
    /\ UNCHANGED <<users, nextId, companies, now, auth, pwd, tmp,
                   custom_weights, cw, company_partner_permissions, perm, hist>>

\* the update is applied and the call returns the patched object
updateUserLoginTypesUpdate(p) ==
    /\ lt[p].pc = "update"
    /\ LET user == lt[p].arg.user[1] IN
          /\ users' = update(user.id,
                        [login_types |-> Some(JSONstringify(lt[p].loginTypes))])
          /\ hist' = IF users[user.id] = None THEN hist
                     ELSE [hist EXCEPT ![user.id].ltWriter = p]
          /\ lt' = [lt EXCEPT ![p].pc = "done", ![p].wrote = TRUE,
                      ![p].result = ReturnUser(withLoginTypes(user, lt[p].loginTypes))]
    /\ UNCHANGED <<nextId, companies, now, auth, pwd, tmp,
                   custom_weights, cw, company_partner_permissions, perm>>

---------------------------------------------------------------------------
(* setUsersCustomWeights(user_id, property_type, six weights): one select, *)
(* then an insert when a row matched and an update when none did.          *)

PropertyTypes == {"office", "retail"}
Weights(n) ==
    [safety |-> n, trnsprt |-> n, vitalty |-> n, economc |-> n,
     sptl_dm |-> n, amenity |-> n]
WeightInputs == {Weights(1), Weights(2)}

WeightRow(user_id, property_type, w) ==
    [user_id |-> user_id, property_type |-> property_type, safety |-> w.safety,
     trnsprt |-> w.trnsprt, vitalty |-> w.vitalty, economc |-> w.economc,
     sptl_dm |-> w.sptl_dm, amenity |-> w.amenity]

Matches(row, user_id, property_type) ==
    row.user_id = user_id /\ row.property_type = property_type

MatchingRows(table, user_id, property_type) ==
    SelectSeq(table, LAMBDA row : Matches(row, user_id, property_type))

\* .select(["user_id", "property_type"]).where(...).first()
firstMatch(table, user_id, property_type) ==
    IF MatchingRows(table, user_id, property_type) = <<>> THEN None
    ELSE Some([user_id |-> user_id, property_type |-> property_type])

\* the write that follows the select
customWeightsWrite(table, matchingEntry, user_id, property_type, w) ==
    IF matchingEntry # None
    THEN Append(table, WeightRow(user_id, property_type, w))
    ELSE [i \in 1..Len(table) |->
            IF Matches(table[i], user_id, property_type)
            THEN WeightRow(user_id, property_type, w)
            ELSE table[i]]

setUsersCustomWeightsCall(p, user_id, property_type, w) ==
    /\ cw[p].pc \in {"idle", "done"}
    /\ cw' = [cw EXCEPT ![p] =
          [CwIdle EXCEPT !.pc = "select", !.user_id = user_id,
                         !.property_type = property_type, !.weights = w]]
    /\ UNCHANGED <<users, nextId, companies, now, auth, pwd, tmp, lt,
                   custom_weights, company_partner_permissions, perm, hist>>

setUsersCustomWeightsSelect(p) ==
    /\ cw[p].pc = "select"
    /\ cw' = [cw EXCEPT ![p].pc = "write",
          ![p].matchingEntry =
              firstMatch(custom_weights, cw[p].user_id, cw[p].property_type)]
    /\ UNCHANGED <<users, nextId, companies, now, auth, pwd, tmp, lt,
                   custom_weights, company_partner_permissions, perm, hist>>

setUsersCustomWeightsWrite(p) ==
    /\ cw[p].pc = "write"
    /\ cw[p].matchingEntry # None => Len(custom_weights) < MaxWeightRows
    /\ custom_weights' =
          customWeightsWrite(custom_weights, cw[p].matchingEntry,
                             cw[p].user_id, cw[p].property_type, cw[p].weights)
    /\ cw' = [cw EXCEPT ![p].pc = "done"]
    /\ UNCHANGED <<users, nextId, companies, now, auth, pwd, tmp, lt,
                   company_partner_permissions, perm, hist>>

---------------------------------------------------------------------------
(* getCompanyPartnerPermissions(companyId) *)

DEFAULT_COMPANY_PARTNER_PERMISSIONS ==
    <<"cls", "cmbs", "cmm", "compstak", "val", "reis", "infabode",
      "commercialex", "enricheddata", "retailmarketpoint", "databuffet",
      "fourtwentyseven">>

PermissionRows(table, companyId) ==
    SelectSeq(table, LAMBDA row : row.company_id = companyId)

partnersMerged(permissions) ==
    DEFAULT_COMPANY_PARTNER_PERMISSIONS
        \o [i \in 1..Len(permissions) |-> permissions[i].partner]

partners(permissions) ==
    IF Len(permissions) = 0 THEN DEFAULT_COMPANY_PARTNER_PERMISSIONS
    ELSE [i \in 1..Len(permissions) |-> permissions[i].partner]

getCompanyPartnerPermissions(p, companyId) ==
    /\ perm' = [perm EXCEPT ![p] =
          [pc |-> "done", companyId |-> companyId,
           result |-> partners(PermissionRows(company_partner_permissions,
                                              companyId))]]
    /\ UNCHANGED <<users, nextId, companies, now, auth, pwd, tmp, lt,
                   custom_weights, cw, company_partner_permissions, hist>>

---------------------------------------------------------------------------
(* Authentication: accounts are created, switched, removed and given new   *)
(* passwords while callers authenticate.                                   *)

\* one caller authenticates, always as "a" in either casing, and one changes
\* passwords; "b" is the account that must not be taken for "a"; the clock
\* runs until the company's term has ended
NextAuth ==
    \/ (now < TermEnd /\ Tick(1))
    \/ \E pw \in {None, Some("p1")}, c \in CompanyIdInputs :
          create(<<"A">>, pw, Some("user"), c)
    \/ create(<<"b">>, Some("p1"), Some("user"), None)
    \/ \E e \in {<<"a">>, <<"A">>}, pw \in PasswordInputs :
          authenticateCall(1, e, pw)
    \/ authenticateSelect(1)
    \/ \E answered \in BOOLEAN : authenticateGetCompany(1, answered)
    \/ authenticateCompare(1)
    \/ \E id \in UserIds : remove(id)
    \/ \E id \in UserIds : deactivate(id)
    \/ \E id \in UserIds : activate(id)
    \/ \E id \in UserIds, pw \in NewPasswords : changePasswordCall(1, id, pw)
    \/ changePasswordUpdate(1)

SpecAuth == Init /\ [][NextAuth]_vars

---------------------------------------------------------------------------
(* Temporary passwords: caller 1 checks while caller 2 issues; the clock   *)
(* advances in steps of TickMinutes.                                       *)

\* the ids the table has handed out so far
IssuedIds == 1..(nextId - 1)

NextTemp ==
    \/ Tick(TickMinutes)
    \/ create(<<"a">>, None, Some("user"), None)
    \/ \E id \in IssuedIds : remove(id)
    \/ \E id \in IssuedIds, t \in TempPasswords : setTemporaryPasswordCall(2, id, t)
    \/ setTemporaryPasswordUpdate(2)
    \/ \E id \in IssuedIds, t \in TempPasswords : checkTemporaryPasswordCall(1, id, t)
    \/ checkTemporaryPasswordSelect(1)
    \/ checkTemporaryPasswordCompare(1)

SpecTemp == Init /\ [][NextTemp]_vars

---------------------------------------------------------------------------
(* Credentials: one caller checks temporary passwords and changes the      *)
(* password while another issues temporary passwords, and the account is   *)
(* switched off and on.                                                    *)

\* the clock runs until the first temporary password can have expired
NextCredentials ==
    \/ (now < TempPasswordMinutes /\ Tick(TickMinutes))
    \/ create(<<"a">>, Some("p1"), Some("user"), None)
    \/ \E id \in IssuedIds : setTemporaryPasswordCall(2, id, "t1")
    \/ setTemporaryPasswordUpdate(2)
    \/ \E id \in IssuedIds : checkTemporaryPasswordCall(1, id, "t1")
    \/ checkTemporaryPasswordSelect(1)
    \/ checkTemporaryPasswordCompare(1)
    \/ \E id \in IssuedIds, pw \in NewPasswords : changePasswordCall(1, id, pw)
    \/ changePasswordUpdate(1)
    \/ \E id \in UserIds : deactivate(id)
    \/ \E id \in UserIds : activate(id)

SpecCredentials == Init /\ [][NextCredentials]_vars

---------------------------------------------------------------------------
(* Writers: every operation that updates an account's row, interleaved,    *)
(* with the clock standing still.                                          *)

NextWriters ==
    \/ create(<<"a">>, Some("p1"), Some("user"), None)
    \/ \E id \in IssuedIds : setTemporaryPasswordCall(2, id, "t1")
    \/ setTemporaryPasswordUpdate(2)
    \/ \E id \in IssuedIds : checkTemporaryPasswordCall(1, id, "t1")
    \/ checkTemporaryPasswordSelect(1)
    \/ checkTemporaryPasswordCompare(1)
    \/ \E id \in IssuedIds, pw \in NewPasswords : changePasswordCall(1, id, pw)
    \/ changePasswordUpdate(1)
    \/ \E id \in IssuedIds : deactivate(id)
    \/ \E id \in IssuedIds : activate(id)
    \/ \E id \in IssuedIds : acceptTermsOfService(id)
    \/ \E id \in IssuedIds : find(1, id)
    \/ updateUserLoginTypesCall(1, "password")
    \/ updateUserLoginTypesUpdate(1)

SpecWriters == Init /\ [][NextWriters]_vars

---------------------------------------------------------------------------
(* Roles: accounts are created with any role, removed, switched, given     *)
(* passwords and temporary passwords, and marked.                          *)

NextRoles ==
    \/ \E r \in RoleInputs : create(<<"a">>, None, r, None)
    \/ \E id \in IssuedIds : remove(id)
    \/ \E id \in IssuedIds : deactivate(id)
    \/ \E id \in IssuedIds : activate(id)
    \/ \E id \in IssuedIds : acceptTermsOfService(id)
    \/ \E id \in IssuedIds : updateNoticeEmailSent(id)
    \/ \E id \in IssuedIds, pw \in NewPasswords : changePasswordCall(1, id, pw)
    \/ changePasswordUpdate(1)
    \/ \E id \in IssuedIds : setTemporaryPasswordCall(2, id, "t1")
    \/ setTemporaryPasswordUpdate(2)

SpecRoles == Init /\ [][NextRoles]_vars

---------------------------------------------------------------------------
(* Login types: every caller fetches the account and records login types,  *)
(* with the fetched object or with the object the last call returned.      *)

NextLogin ==
    \/ create(<<"a">>, None, Some("user"), None)
    \/ \E p \in Callers, id \in UserIds : find(p, id)
    \/ \E p \in Callers, t \in LoginTypes : updateUserLoginTypesCall(p, t)
    \/ \E p \in Callers : updateUserLoginTypesUpdate(p)

SpecLogin == Init /\ [][NextLogin]_vars

---------------------------------------------------------------------------
(* Custom weights: the table starts empty or with one stored profile, and  *)
(* the callers set weights concurrently.                                   *)

SeedWeights == {<<>>, <<WeightRow(1, "office", Weights(1))>>}

InitWeights ==
    /\ InitCalls
    /\ custom_weights \in SeedWeights
    /\ company_partner_permissions = <<>>

NextWeights ==
    \/ \E p \in Callers, pt \in PropertyTypes, w \in WeightInputs :
          setUsersCustomWeightsCall(p, 1, pt, w)
    \/ \E p \in Callers : setUsersCustomWeightsSelect(p)
    \/ \E p \in Callers : setUsersCustomWeightsWrite(p)

SpecWeights == InitWeights /\ [][NextWeights]_vars

---------------------------------------------------------------------------
(* Partner permissions: the table holds any rows of up to                  *)
(* MaxPermissionRows, and the callers resolve companies' permissions.      *)

PermissionCompanies == {1, 2}
PartnerTags == {"cls", "custom"}
PermissionRow == [company_id : PermissionCompanies, partner : PartnerTags]
RECURSIVE TablesOf(_)
TablesOf(n) ==
    IF n = 0 THEN {<<>>}
    ELSE TablesOf(n - 1)
            \cup {Append(t, r) : t \in {u \in TablesOf(n - 1) : Len(u) = n - 1},
                                 r \in PermissionRow}

InitPermissions ==
    /\ InitCalls
    /\ custom_weights = <<>>
    /\ company_partner_permissions \in TablesOf(MaxPermissionRows)

NextPermissions ==
    \E p \in Callers, c \in PermissionCompanies : getCompanyPartnerPermissions(p, c)

SpecPermissions == InitPermissions /\ [][NextPermissions]_vars

---------------------------------------------------------------------------
(* The whole program: every operation, by every caller *)

Next ==
    \/ NextAuth
    \/ NextTemp
    \/ NextCredentials
    \/ NextWriters
    \/ NextRoles
    \/ NextLogin
    \/ NextWeights
    \/ NextPermissions
    \/ \E id \in UserIds : acceptTermsOfService(id)
    \/ \E id \in UserIds : updateNoticeEmailSent(id)

Spec == Init /\ [][Next]_vars

---------------------------------------------------------------------------
(* Properties of authenticate *)

AuthDone(a) == a.pc = "done" /\ Truthy(a.password)
\* the company lookup was not needed, or the gateway answered
CompanyKnown(a) == isBlank(a.row[1].company_id) \/ a.company # None
TermValid(a) ==
    \/ isBlank(a.row[1].company_id)
    \/ a.company # None /\ a.checkedAt < a.company[1].end_date

\* the outcome the fixed order of checks prescribes
FirstFailingCheck(a) ==
    IF a.row = None THEN Throw("Username cannot be found")
    ELSE IF a.row[1].status # "active" THEN Throw("Your accout has been deactivated")
    ELSE IF ~TermValid(a) THEN Throw("Your company subscription has expired")
    ELSE IF a.row[1].encrypted_password = None THEN Throw("Invalid password")
    ELSE IF ~compare(a.password[1], a.row[1].encrypted_password[1])
    THEN Throw("Invalid password")
    ELSE ReturnUser(toUser(a.row[1]))

\* C1: for a non-empty secret authenticate reports the first failing check in
\* the order account missing, account not active, company term expired,
\* password missing or wrong, and returns the account only when all pass; an
\* inactive account is reported as deactivated whatever else holds.
C1_FirstFailingCheckReported ==
    \A p \in Callers :
        AuthDone(auth[p]) =>
            /\ (auth[p].row # None /\ auth[p].row[1].status # "active")
                  => auth[p].result = Throw("Your accout has been deactivated")
            /\ (auth[p].row = None \/ CompanyKnown(auth[p]))
                  => auth[p].result = FirstFailingCheck(auth[p])

C5_ChangePasswordThenAuthenticate ==
    \A p \in Callers :
        (/\ AuthDone(auth[p])
         /\ auth[p].row # None
         /\ auth[p].seen # None
         /\ auth[p].row[1].status = "active"
         /\ TermValid(auth[p])) =>
            IF auth[p].password = auth[p].seen
            THEN auth[p].result = ReturnUser(toUser(auth[p].row[1]))
            ELSE auth[p].result = Throw("Invalid password")

\* the password was changed to p2 and authenticate accepted p2 for an account
\* of a company within its term
C5_Witness ==
    /\ AuthDone(auth[1])
    /\ auth[1].seen = Some("p2")
    /\ auth[1].password = Some("p2")
    /\ auth[1].company # None
    /\ auth[1].result.user # None

\* C14: getCompany sends no gateway request for a null company id and
\* returns null, and a null company never gates: an authenticate that reads
\* an account without a company makes no gateway request, and returns the
\* account when it is active and the password matches its hash, at any time.
C14_NoCompanyNoGateway ==
    /\ getCompanyRequests(None) = 0
    /\ \A p \in Callers :
          (auth[p].row # None /\ isBlank(auth[p].row[1].company_id)) =>
              /\ auth[p].gateway = 0
              /\ auth[p].pc # "getCompany"
              /\ auth[p].company = None
    /\ \A p \in Callers :
          (/\ AuthDone(auth[p]) /\ auth[p].row # None
           /\ isBlank(auth[p].row[1].company_id)
           /\ auth[p].row[1].status = "active"
           /\ auth[p].row[1].encrypted_password # None
           /\ compare(auth[p].password[1], auth[p].row[1].encrypted_password[1])) =>
              auth[p].result = ReturnUser(toUser(auth[p].row[1]))

\* an account without a company authenticated, with no gateway request,
\* after the end of the directory's company term
C14_Witness ==
    /\ AuthDone(auth[1])
    /\ auth[1].row # None
    /\ auth[1].row[1].company_id = None
    /\ auth[1].result.user # None
    /\ auth[1].gateway = 0
    /\ auth[1].reads = 1
    /\ auth[1].checkedAt >= TermEnd

\* C17: authenticate tests the status before it asks the gateway: a call
\* that has read an account that is not active makes no gateway request, and
\* ends with the deactivated error, whether the gateway answers or fails.
C17_StatusBeforeGateway ==
    \A p \in Callers :
        (auth[p].row # None /\ auth[p].row[1].status # "active") =>
            /\ auth[p].gateway = 0
            /\ auth[p].pc = "done"
                  => auth[p].result = Throw("Your accout has been deactivated")

\* C20: authenticate decides on the row its one select returned: a call
\* that read the account inactive (after a deactivate, before any activate)
\* fails with the deactivated error; a call that returns the account read it
\* active with a hash matching the password; and the outcome is the one the
\* row as read prescribes, whatever deactivate, remove or changePassword
\* did to the account while the call waited for the gateway or for bcrypt.
C20_DecidesOnRowAsRead ==
    \A p \in Callers :
        (AuthDone(auth[p]) /\ auth[p].row # None) =>
            /\ auth[p].reads = 1
            /\ auth[p].row[1].status # "active"
                  => auth[p].result = Throw("Your accout has been deactivated")
            /\ auth[p].result.user # None =>
                  /\ auth[p].row[1].status = "active"
                  /\ auth[p].row[1].encrypted_password # None
                  /\ compare(auth[p].password[1],
                             auth[p].row[1].encrypted_password[1])
                  /\ auth[p].result.user = Some(toUser(auth[p].row[1]))
            /\ (auth[p].row[1].status = "active" /\ CompanyKnown(auth[p]))
                  => auth[p].result = FirstFailingCheck(auth[p])

\* C16: every stored email is lower case, whatever casing create was given,
\* and in every reachable state authenticate has the same outcome for an
\* email and for its lower-cased spelling, with every password and whether
\* the gateway answers or fails; a call in flight has read the row stored
\* under the lower-cased spelling of its email.
C16_EmailCaseInsensitive ==
    /\ \A id \in UserIds :
          users[id] # None => users[id][1].email = toLowerCase(users[id][1].email)
    /\ \A e \in EmailInputs :
          e # toLowerCase(e) =>
              \A pw \in PasswordInputs, answered \in BOOLEAN :
                  authenticateRun(e, pw, answered)
                      = authenticateRun(toLowerCase(e), pw, answered)
    /\ \A p \in Callers :
          auth[p].row # None => auth[p].row[1].email = toLowerCase(auth[p].email)

\* the account created as "A" is stored as "a", is returned to a call that
\* spells it "A", and a call spelling it "a" would get it too
C16_Witness ==
    /\ AuthDone(auth[1])
    /\ auth[1].email = <<"A">>
    /\ auth[1].result.user # None
    /\ auth[1].result.user[1].email = <<"a">>
    /\ authenticateRun(<<"a">>, Some("p1"), TRUE).user # None
    /\ authenticateRun(<<"A">>, Some("p1"), TRUE).user # None

\* the account was created without a password
CreatedWithoutPassword(id) ==
    hist[id].asked # None /\ ~Truthy(hist[id].asked[1].password)

C15_RoleInClosedSet ==
    \A id \in UserIds :
        users[id] # None =>
            /\ users[id][1].role \in {"user", "admin", "superadmin"}
            /\ hist[id].asked # None
            /\ users[id][1].role =
                  IF hist[id].asked[1].role
                        \in {Some("user"), Some("admin"), Some("superadmin")}
                  THEN hist[id].asked[1].role[1]
                  ELSE "user"

\* an account asked for as "Admin" is a user, after it was deactivated and
\* given a password and a temporary password
C15_Witness ==
    \E id \in UserIds :
        /\ users[id] # None
        /\ hist[id].asked # None
        /\ hist[id].asked[1].role = Some("Admin")
        /\ users[id][1].role = "user"
        /\ users[id][1].status = "inactive"
        /\ users[id][1].encrypted_password # None
        /\ users[id][1].temp_password # None

---------------------------------------------------------------------------
(* Properties of temporary passwords *)

Last(q) == q[Len(q)]
CheckDone(t) == t.op = "check" /\ t.pc = "done" /\ t.row # None

\* C3: a temporary password issued at time t verifies, with its own
\* plaintext, exactly while the clock read by the check is strictly before
\* t + 10 minutes; at the expiry instant and after it the check returns false.
C3_ExpiresAfterTenMinutes ==
    \A p \in Callers :
        (/\ CheckDone(tmp[p])
         /\ tmp[p].seen # <<>>
         /\ tmp[p].plain = Last(tmp[p].seen).plain) =>
            tmp[p].result =
                IF tmp[p].at < Last(tmp[p].seen).at + TempPasswordMinutes
                THEN Return("true") ELSE Return("false")

\* the correct plaintext was refused exactly at the expiry instant
C3_Witness ==
    /\ CheckDone(tmp[1])
    /\ tmp[1].seen # <<>>
    /\ tmp[1].plain = Last(tmp[1].seen).plain
    /\ tmp[1].at = Last(tmp[1].seen).at + TempPasswordMinutes
    /\ tmp[1].result = Return("false")

\* C4: before the expiry of the latest issue, the check returns true exactly
\* for the plaintext of the most recent issue and false for any other one;
\* an earlier issue's plaintext and window no longer count.
C4_LatestIssueWins ==
    \A p \in Callers :
        (/\ CheckDone(tmp[p])
         /\ tmp[p].seen # <<>>
         /\ tmp[p].at < Last(tmp[p].seen).at + TempPasswordMinutes) =>
            /\ tmp[p].result \in {Return("true"), Return("false")}
            /\ tmp[p].result = Return("true")
                  <=> tmp[p].plain = Last(tmp[p].seen).plain

\* two issues with different plaintexts; after the first window has closed
\* the second plaintext still verifies
C4_Witness ==
    /\ CheckDone(tmp[1])
    /\ Len(tmp[1].seen) = 2
    /\ tmp[1].seen[1].plain # tmp[1].seen[2].plain
    /\ tmp[1].at >= tmp[1].seen[1].at + TempPasswordMinutes
    /\ tmp[1].plain = tmp[1].seen[2].plain
    /\ tmp[1].result = Return("true")

StoredHashes == {None} \cup {Some(hash(t, SaltRounds)) : t \in TempPasswords}
StoredTimes == {None} \cup {Some(t) : t \in Times}

\* C10: for an existing account the check returns false, and raises nothing,
\* whenever the stored temporary hash or the stored expiry is missing, for
\* every plaintext; a hash without an expiry, or an expiry without a hash,
\* is never accepted.
C10_MissingTemporaryIsFalse ==
    /\ \A p \in Callers :
          (/\ CheckDone(tmp[p])
           /\ \/ tmp[p].row[1].temp_password = None
              \/ tmp[p].row[1].temp_password_expire_time = None) =>
              tmp[p].result = Return("false")
    /\ \A h \in StoredHashes, e \in StoredTimes, q \in TempPasswords :
          (h = None \/ e = None) =>
              checkTemporaryPasswordOutcome(q, h, e, now) = Return("false")

\* an account that was never given a temporary password was checked
C10_Witness ==
    /\ CheckDone(tmp[1])
    /\ tmp[1].seen = <<>>
    /\ tmp[1].row[1].temp_password = None
    /\ tmp[1].result = Return("false")

\* a step of a checkTemporaryPassword call of caller p
CheckStep(p) ==
    \/ \E id \in UserIds, t \in TempPasswords : checkTemporaryPasswordCall(p, id, t)
    \/ checkTemporaryPasswordSelect(p)
    \/ checkTemporaryPasswordCompare(p)

SameIssue(q, r) ==
    \/ q = <<>> /\ r = <<>>
    \/ q # <<>> /\ r # <<>> /\ Last(q).plain = Last(r).plain /\ Last(q).at = Last(r).at

\* C11: no step of checkTemporaryPassword changes the users table, whatever
\* it returns: as long as nothing has been issued since the check's select,
\* the account still stores the hash and the expiry the check read; and a
\* temporary password that has verified once verifies again, with the same
\* plaintext, in every later check that reads the clock before its expiry.
C11_CheckWritesNothing ==
    /\ [][\A p \in Callers : CheckStep(p) => users' = users]_vars
    /\ [](\A p \in Callers :
            (CheckDone(tmp[p]) /\ users[tmp[p].id] # None
                /\ SameIssue(hist[tmp[p].id].issued, tmp[p].seen)) =>
                /\ users[tmp[p].id][1].temp_password = tmp[p].row[1].temp_password
                /\ users[tmp[p].id][1].temp_password_expire_time
                      = tmp[p].row[1].temp_password_expire_time)
    /\ [](\A p \in Callers :
            (/\ CheckDone(tmp[p])
             /\ tmp[p].seen # <<>>
             /\ Last(tmp[p].seen).verified
             /\ tmp[p].plain = Last(tmp[p].seen).plain
             /\ tmp[p].at < Last(tmp[p].seen).at + TempPasswordMinutes) =>
                tmp[p].result = Return("true"))

\* the temporary password had already verified when the check read it, and
\* it verified again
C11_Witness ==
    /\ CheckDone(tmp[1])
    /\ tmp[1].seen # <<>>
    /\ Last(tmp[1].seen).verified
    /\ tmp[1].result = Return("true")
    /\ users[tmp[1].id] # None
    /\ users[tmp[1].id][1].temp_password = tmp[1].row[1].temp_password

\* C12: changePassword writes the column encrypted_password of its account
\* and nothing else: the temporary hash and expiry, status, role, company,
\* creator's columns and terms timestamp keep their values and no other
\* account changes; so a temporary password issued before a changePassword
\* completed still verifies, with its plaintext, until its own expiry.
C12_ChangePasswordKeepsTemporary ==
    /\ [][\A p \in Callers :
            /\ (\E id \in UserIds, pw \in NewPasswords : changePasswordCall(p, id, pw))
                  => users' = users
            /\ changePasswordUpdate(p) =>
                  \A id \in UserIds :
                      users'[id] =
                        IF id = pwd[p].id /\ users[id] # None
                        THEN Some([users[id][1] EXCEPT !.encrypted_password =
                                     Some(hash(pwd[p].newPassword, SaltRounds))])
                        ELSE users[id]]_vars
    /\ [](\A p \in Callers :
            (/\ CheckDone(tmp[p])
             /\ tmp[p].seen # <<>>
             /\ Last(tmp[p].seen).outlived
             /\ tmp[p].plain = Last(tmp[p].seen).plain
             /\ tmp[p].at < Last(tmp[p].seen).at + TempPasswordMinutes) =>
                tmp[p].result = Return("true"))

\* a temporary password verified after a changePassword that completed
\* after its issue
C12_Witness ==
    /\ CheckDone(tmp[1])
    /\ tmp[1].seen # <<>>
    /\ Last(tmp[1].seen).outlived
    /\ tmp[1].result = Return("true")
    /\ hist[tmp[1].id].changed = Some("p2")
    /\ users[tmp[1].id] # None
    /\ users[tmp[1].id][1].encrypted_password = Some(hash("p2", SaltRounds))

\* the table with the status of account id set, every other column and
\* every other account as it is; the table as it is when id has no account
WithStatus(id, status) ==
    IF users[id] = None THEN users
    ELSE [users EXCEPT ![id] = Some([users[id][1] EXCEPT !.status = status])]

TemporaryColumns(row) ==
    <<row.temp_password, row.temp_password_expire_time>>

\* C19: every account stores a temporary hash exactly when it stores an
\* expiry, and the two columns of an account change only in the update of
\* setTemporaryPassword, which writes both: changePassword, activate,
\* deactivate, updateUserLoginTypes, acceptTermsOfService and
\* checkTemporaryPassword leave them as they are, however the calls
\* interleave.
C19_HashIffExpiry ==
    /\ [](\A id \in UserIds :
            users[id] # None =>
                (users[id][1].temp_password = None
                    <=> users[id][1].temp_password_expire_time = None))
    /\ [][\A id \in UserIds :
            (/\ users[id] # None /\ users'[id] # None
             /\ TemporaryColumns(users'[id][1]) # TemporaryColumns(users[id][1])) =>
                /\ \E p \in Callers : setTemporaryPasswordUpdate(p)
                /\ users'[id][1].temp_password # None
                /\ users'[id][1].temp_password_expire_time # None]_vars

\* an account holds a hash and an expiry after its password was changed, it
\* was deactivated, accepted the terms, recorded a login type and had its
\* temporary password checked
C19_Witness ==
    \E id \in UserIds :
        /\ users[id] # None
        /\ users[id][1].temp_password # None
        /\ users[id][1].temp_password_expire_time # None
        /\ users[id][1].encrypted_password = Some(hash("p2", SaltRounds))
        /\ users[id][1].status = "inactive"
        /\ users[id][1].terms_accepted_at # None
        /\ users[id][1].login_types # None
        /\ CheckDone(tmp[1]) /\ tmp[1].id = id /\ tmp[1].result = Return("true")

---------------------------------------------------------------------------
(* Properties of login types *)

NoDuplicates(q) == \A i, j \in 1..Len(q) : q[i] = q[j] => i = j
Count(q, x) == Cardinality({i \in 1..Len(q) : q[i] = x})
StoredLoginTypes(id) ==
    IF users[id] = None \/ users[id][1].login_types = None THEN <<>>
    ELSE users[id][1].login_types[1].items

\* C6: a second updateUserLoginTypes with the same tag, on the object the
\* first call returned, completes without error, writes nothing, returns its
\* argument unchanged and leaves the tag stored exactly once.
C6_SecondCallIsNoOp ==
    \A p \in Callers :
        (/\ lt[p].pc = "done"
         /\ lt[p].arg.from = "update"
         /\ lt[p].arg.tag = lt[p].loginType) =>
            /\ lt[p].result = ReturnUser(lt[p].arg.user[1])
            /\ ~lt[p].wrote
            /\ hist[lt[p].arg.user[1].id].ltWriter = p
                  => Count(StoredLoginTypes(lt[p].arg.user[1].id), lt[p].loginType) = 1

SameSnapshotRace(p, q) ==
    /\ p # q
    /\ lt[p].pc = "done" /\ lt[q].pc = "done"
    /\ lt[p].arg.from = "find" /\ lt[q].arg.from = "find"
    /\ lt[p].arg.user = lt[q].arg.user
    /\ lt[p].loginType # lt[q].loginType
    /\ lt[p].wrote /\ lt[q].wrote

\* C9: when two calls for the same account with different new tags both work
\* on the snapshot taken before either wrote, both return without error and
\* the update applied last wins, so the store holds the snapshot plus that
\* call's tag and not the other call's; the stored list never holds a
\* duplicate.
C9_LastWriteWins ==
    /\ \A id \in UserIds : NoDuplicates(StoredLoginTypes(id))
    /\ \A p, q \in Callers :
          (SameSnapshotRace(p, q) /\ hist[lt[p].arg.user[1].id].ltWriter = p) =>
              /\ lt[p].result.kind = "return" /\ lt[q].result.kind = "return"
              /\ StoredLoginTypes(lt[p].arg.user[1].id) = lt[p].loginTypes
              /\ Count(StoredLoginTypes(lt[p].arg.user[1].id), lt[q].loginType) = 0

\* both calls wrote from the same snapshot and the tag of caller 2 is lost
C9_Witness ==
    /\ SameSnapshotRace(1, 2)
    /\ hist[1].ltWriter = 1
    /\ users[1] # None
    /\ StoredLoginTypes(1) = <<lt[1].loginType>>

---------------------------------------------------------------------------
(* Properties of custom weights and partner permissions *)

Profiles(user_id, property_type) ==
    MatchingRows(custom_weights, user_id, property_type)

\* C7: the table holds at most one profile per (user id, property type), and
\* once a call has completed, with no other call under way, it holds exactly
\* one profile for the call's key, carrying the call's six weights.
C7_OneProfilePerKey ==
    /\ \A pt \in PropertyTypes : Len(Profiles(1, pt)) <= 1
    /\ \A p \in Callers :
          (cw[p].pc = "done" /\ \A q \in Callers \ {p} : cw[q].pc = "idle") =>
              Profiles(cw[p].user_id, cw[p].property_type)
                  = <<WeightRow(cw[p].user_id, cw[p].property_type, cw[p].weights)>>

\* C8: with no permission row for the company the result is the fixed list
\* of twelve default partners; with rows it is exactly their partner tags in
\* row order, nothing of the default list merged in.
C8_DefaultOnlyWithoutRows ==
    \A p \in Callers :
        perm[p].pc = "done" =>
            LET rows == PermissionRows(company_partner_permissions, perm[p].companyId)
            IN IF rows = <<>>
               THEN perm[p].result =
                      <<"cls", "cmbs", "cmm", "compstak", "val", "reis",
                        "infabode", "commercialex", "enricheddata",
                        "retailmarketpoint", "databuffet", "fourtwentyseven">>
               ELSE /\ Len(perm[p].result) = Len(rows)
                    /\ \A i \in 1..Len(rows) : perm[p].result[i] = rows[i].partner

\* a company with the one row "custom", among rows of another company
C8_Witness ==
    /\ perm[1].pc = "done"
    /\ perm[1].companyId = 1
    /\ Len(company_partner_permissions) = 2
    /\ Len(PermissionRows(company_partner_permissions, 1)) = 1
    /\ perm[1].result = <<"custom">>

====
